---- MODULE Spec2Model ----
(***************************************************************************)
(* Model of the text-transformation engine of coq_formatter.py:            *)
(* format_comment_spaces, ensure_newline_before_keywords and their         *)
(* composition format_coq_code.  A text is a sequence of one-character     *)
(* strings.  Each re.sub / str.replace call is modelled as the left-to-    *)
(* right scan for non-overlapping matches that the library performs.       *)
(***************************************************************************)
EXTENDS Integers, Sequences, FiniteSets, TLC

VARIABLES input, text, pc

vars == <<input, text, pc>>

(* ---------------------------------------------------------------------- *)
(* Bounds and the input alphabet                                           *)
(* ---------------------------------------------------------------------- *)

\* Largest number of fragments an input text is assembled from.
MaxFrags == 3

\* Pieces the input texts are concatenated from: the two comment markers
\* and their characters, the three kinds of white space / line ending the
\* code distinguishes, an identifier character, a punctuation character,
\* two trigger keywords and the suffix that turns "Admit" into "Admitted".
Fragments ==
  { <<"(", "*">>, <<"*", ")">>,
    <<"(">>, <<"*">>, <<")">>, <<" ">>, <<"\n">>, <<"\r">>, <<"x">>, <<".">>,
    <<"Q", "e", "d">>, <<"A", "d", "m", "i", "t">>, <<"t", "e", "d">> }

RECURSIVE TextsOf(_)
TextsOf(n) ==
  IF n = 0 THEN { <<>> }
  ELSE { p \o f : p \in TextsOf(n - 1), f \in Fragments }

Inputs == UNION { TextsOf(n) : n \in 0..MaxFrags }

(* ---------------------------------------------------------------------- *)
(* Character classes of the regular expressions                            *)
(* ---------------------------------------------------------------------- *)

\* \s : white space (the characters of it that a TLA+ string can hold).
Whitespace == { " ", "\t", "\n", "\r", "\f" }

IsSpace(c) == c \in Whitespace

\* \w : letters, digits and the underscore.
WordChars ==
  { "a", "b", "c", "d", "e", "f", "g", "h", "i", "j", "k", "l", "m",
    "n", "o", "p", "q", "r", "s", "t", "u", "v", "w", "x", "y", "z",
    "A", "B", "C", "D", "E", "F", "G", "H", "I", "J", "K", "L", "M",
    "N", "O", "P", "Q", "R", "S", "T", "U", "V", "W", "X", "Y", "Z",
    "0", "1", "2", "3", "4", "5", "6", "7", "8", "9", "_" }

\* Is there a word character at (1-based) position p of t?  Positions
\* outside the text hold none.
IsWordAt(t, p) == p >= 1 /\ p <= Len(t) /\ t[p] \in WordChars

\* \b at position p: exactly one of the characters before and at p is a
\* word character.
WordBoundary(t, p) == IsWordAt(t, p - 1) # IsWordAt(t, p)

\* Does the literal w occur in t at position p?
HasAt(t, p, w) ==
  /\ p >= 1
  /\ p + Len(w) - 1 <= Len(t)
  /\ \A i \in 1..Len(w) : t[p + i - 1] = w[i]

(* ---------------------------------------------------------------------- *)
(* format_comment_spaces                                                   *)
(* ---------------------------------------------------------------------- *)


\* The first pattern without its lookahead: r'\(\*'.
MatchOpenAt_NoLookahead(t, p) == HasAt(t, p, <<"(", "*">>)

\* r'\(\*(?!\s)' : "(*" at p, not followed by white space.
MatchOpenAt(t, p) ==
  /\ HasAt(t, p, <<"(", "*">>)
  /\ ~(p + 2 <= Len(t) /\ IsSpace(t[p + 2]))


\* The first replacement without its space: r'(*'.
OpenRepl_NoSpace == <<"(", "*">>

\* r'(* ' : the replacement of the first substitution.
OpenRepl == <<"(", "*", " ">>

\* re.sub of the first pattern, scanning from position p.
RECURSIVE SubOpenFrom(_, _)
SubOpenFrom(t, p) ==
  IF p > Len(t) THEN <<>>
  ELSE IF MatchOpenAt(t, p) THEN OpenRepl \o SubOpenFrom(t, p + 2)
  ELSE <<t[p]>> \o SubOpenFrom(t, p + 1)


\* The second pattern without its lookbehind: r'\*\)'.
MatchCloseAt_NoLookbehind(t, p) == HasAt(t, p, <<"*", ")">>)

\* r'(?<!\s)\*\)' : "*)" at p, not preceded by white space.
MatchCloseAt(t, p) ==
  /\ ~(p > 1 /\ IsSpace(t[p - 1]))
  /\ HasAt(t, p, <<"*", ")">>)


\* The second replacement with its star lost: r' )'.
CloseRepl_NoStar == <<" ", ")">>

\* r' *)' : the replacement of the second substitution.
CloseRepl == <<" ", "*", ")">>

\* re.sub of the second pattern, scanning from position p.
RECURSIVE SubCloseFrom(_, _)
SubCloseFrom(t, p) ==
  IF p > Len(t) THEN <<>>
  ELSE IF MatchCloseAt(t, p) THEN CloseRepl \o SubCloseFrom(t, p + 2)
  ELSE <<t[p]>> \o SubCloseFrom(t, p + 1)

format_comment_spaces(t) == SubCloseFrom(SubOpenFrom(t, 1), 1)

(* ---------------------------------------------------------------------- *)
(* ensure_newline_before_keywords                                          *)
(* ---------------------------------------------------------------------- *)

\* The trigger keywords, in the order of the alternation.
keywords ==
  << <<"L", "e", "m", "m", "a">>,
     <<"T", "h", "e", "o", "r", "e", "m">>,
     <<"D", "e", "f", "i", "n", "i", "t", "i", "o", "n">>,
     <<"F", "i", "x", "p", "o", "i", "n", "t">>,
     <<"P", "r", "o", "o", "f">>,
     <<"Q", "e", "d">>,
     <<"A", "d", "m", "i", "t", "t", "e", "d">>,
     <<"A", "d", "m", "i", "t">>,
     <<"C", "o", "r", "o", "l", "l", "a", "r", "y">>,
     <<"R", "e", "m", "a", "r", "k">>,
     <<"P", "r", "o", "p", "o", "s", "i", "t", "i", "o", "n">>,
     <<"E", "x", "a", "m", "p", "l", "e">> >>


\* The first lookbehind left out.
NotAfterLF_Dropped(t, p) == TRUE

\* The first lookbehind written with \s: r'(?<!\s)'.
NotAfterLF_AnySpace(t, p) == ~(p > 1 /\ IsSpace(t[p - 1]))

\* (?<!\n) : the character before p is not a line-feed.
NotAfterLF(t, p) == ~(p > 1 /\ t[p - 1] = "\n")


\* The second lookbehind left out.
NotAtStart_Dropped(t, p) == TRUE

\* (?<!^) : p is not the start of the text (no MULTILINE flag).
NotAtStart(t, p) == p # 1


\* The group without the closing \b.
Alternatives_NoBoundary(t, p) ==
  { k \in 1..Len(keywords) : HasAt(t, p, keywords[k]) }

\* The alternatives of the group that match at p with the closing \b.
Alternatives(t, p) ==
  { k \in 1..Len(keywords) :
      HasAt(t, p, keywords[k]) /\ WordBoundary(t, p + Len(keywords[k])) }

\* The whole pattern at p: the index of the alternative the match takes
\* (the first one that lets the rest of the pattern match), 0 for no match.
MatchKeywordAt(t, p) ==
  IF /\ NotAfterLF(t, p)
     /\ NotAtStart(t, p)
     /\ WordBoundary(t, p)
     /\ Alternatives(t, p) # {}
  THEN CHOOSE k \in Alternatives(t, p) : \A j \in Alternatives(t, p) : k <= j
  ELSE 0


\* The replacement with the line-feed on the wrong side: r'\1\n'.
KeywordRepl_After(w) == w \o <<"\n">>

\* r'\n\1' : a line-feed, then the matched keyword.
KeywordRepl(w) == <<"\n">> \o w

\* re.sub of the keyword pattern, scanning from position p.
RECURSIVE SubKeywordsFrom(_, _)
SubKeywordsFrom(t, p) ==
  IF p > Len(t) THEN <<>>
  ELSE IF MatchKeywordAt(t, p) # 0
       THEN KeywordRepl(keywords[MatchKeywordAt(t, p)])
              \o SubKeywordsFrom(t, p + Len(keywords[MatchKeywordAt(t, p)]))
       ELSE <<t[p]>> \o SubKeywordsFrom(t, p + 1)

\* The start positions of the matches that scan finds and replaces.
RECURSIVE MatchStartsFrom(_, _)
MatchStartsFrom(t, p) ==
  IF p > Len(t) THEN {}
  ELSE IF MatchKeywordAt(t, p) # 0
       THEN {p} \cup MatchStartsFrom(t, p + Len(keywords[MatchKeywordAt(t, p)]))
       ELSE MatchStartsFrom(t, p + 1)

ensure_newline_before_keywords(t) == SubKeywordsFrom(t, 1)

(* ---------------------------------------------------------------------- *)
(* format_coq_code                                                         *)
(* ---------------------------------------------------------------------- *)

\* str.replace(old, new): every non-overlapping occurrence of old, found
\* scanning from position p, becomes new.
RECURSIVE ReplaceFrom(_, _, _, _)
ReplaceFrom(t, p, old, new) ==
  IF p > Len(t) THEN <<>>
  ELSE IF HasAt(t, p, old) THEN new \o ReplaceFrom(t, p + Len(old), old, new)
  ELSE <<t[p]>> \o ReplaceFrom(t, p + 1, old, new)


\* Only the first replace: text.replace('\r\n', '\n').
NormalizeLineEndings_CRLFOnly(t) == ReplaceFrom(t, 1, <<"\r", "\n">>, <<"\n">>)

\* text.replace('\r\n', '\n').replace('\r', '\n')
NormalizeLineEndings(t) ==
  ReplaceFrom(ReplaceFrom(t, 1, <<"\r", "\n">>, <<"\n">>), 1, <<"\r">>, <<"\n">>)

format_coq_code(t) ==
  NormalizeLineEndings(ensure_newline_before_keywords(format_comment_spaces(t)))

(* ---------------------------------------------------------------------- *)
(* The state machine: one call of format_coq_code, pass by pass, and the   *)
(* direct calls of the two rewrite passes on an arbitrary text             *)
(* ---------------------------------------------------------------------- *)

Init ==
  /\ input \in Inputs
  /\ text = input
  /\ pc = "start"

\* format_coq_code, first statement.
CommentSpaces ==
  /\ pc = "start"
  /\ text' = format_comment_spaces(text)
  /\ pc' = "spaced"
  /\ UNCHANGED input

\* format_coq_code, second statement.
KeywordLines ==
  /\ pc = "spaced"
  /\ text' = ensure_newline_before_keywords(text)
  /\ pc' = "lined"
  /\ UNCHANGED input

\* format_coq_code, third statement and return.
LineEndings ==
  /\ pc = "lined"
  /\ text' = NormalizeLineEndings(text)
  /\ pc' = "done"
  /\ UNCHANGED input

\* ensure_newline_before_keywords called on the input text itself.
KeywordsOnly ==
  /\ pc = "start"
  /\ text' = ensure_newline_before_keywords(text)
  /\ pc' = "kw_only"
  /\ UNCHANGED input

Next == CommentSpaces \/ KeywordLines \/ LineEndings \/ KeywordsOnly

Spec == Init /\ [][Next]_vars

(* ---------------------------------------------------------------------- *)
(* Vocabulary of the properties                                            *)
(* ---------------------------------------------------------------------- *)

\* The concatenation of a sequence of texts.
RECURSIVE Flatten(_)
Flatten(ss) == IF ss = <<>> THEN <<>> ELSE Head(ss) \o Flatten(Tail(ss))

\* The trigger keywords as the specification lists them.
TriggerKeywords ==
  { <<"L", "e", "m", "m", "a">>,
    <<"T", "h", "e", "o", "r", "e", "m">>,
    <<"D", "e", "f", "i", "n", "i", "t", "i", "o", "n">>,
    <<"F", "i", "x", "p", "o", "i", "n", "t">>,
    <<"P", "r", "o", "o", "f">>,
    <<"Q", "e", "d">>,
    <<"A", "d", "m", "i", "t", "t", "e", "d">>,
    <<"A", "d", "m", "i", "t">>,
    <<"C", "o", "r", "o", "l", "l", "a", "r", "y">>,
    <<"R", "e", "m", "a", "r", "k">>,
    <<"P", "r", "o", "p", "o", "s", "i", "t", "i", "o", "n">>,
    <<"E", "x", "a", "m", "p", "l", "e">> }

\* w stands at p as a whole word: no word character right before or after.
WholeWordAt(t, p, w) ==
  HasAt(t, p, w) /\ ~IsWordAt(t, p - 1) /\ ~IsWordAt(t, p + Len(w))

\* A whole-word occurrence of some trigger keyword starts at p.
IsKeywordOccurrence(t, p) == \E w \in TriggerKeywords : WholeWordAt(t, p, w)

KeywordOccurrences(t) == { p \in 1..Len(t) : IsKeywordOccurrence(t, p) }

\* p is the start of the text or comes right after a line-feed.
AtLineStart(t, p) == p = 1 \/ t[p - 1] = "\n"

\* Only blanks and tabs stand between the start of p's line and p.
FirstTokenOfLine(t, p) ==
  \E s \in 1..p : AtLineStart(t, s) /\ \A i \in s..(p - 1) : t[i] \in {" ", "\t"}

OpenMarker == <<"(", "*">>

CloseMarker == <<"*", ")">>

\* The text without its blanks, tabs, carriage returns and line-feeds.
IsLayout(c) == c \in {" ", "\t", "\r", "\n"}

StripLayout(t) == SelectSeq(t, LAMBDA c : ~IsLayout(c))

(* ---------------------------------------------------------------------- *)
(* Properties of format_coq_code                                           *)
(* ---------------------------------------------------------------------- *)

\* C1: the pipeline is idempotent: formatting the output of format_coq_code
\* again returns that output.
C1_Idempotent == pc = "done" => format_coq_code(text) = text

\* An output that differs from its input by both a marker space and a
\* keyword line break.
C1_Witness ==
  /\ pc = "done"
  /\ \E p \in 1..Len(input) : HasAt(input, p, OpenMarker) /\ IsWordAt(input, p + 2)
  /\ \E p \in 2..Len(text) : IsKeywordOccurrence(text, p)

\* C2: in the output every "(*" is followed by white space or the end of
\* the text and every "*)" is preceded by white space or the start of it.
C2_CommentSpacing ==
  pc = "done" =>
    \A p \in 1..Len(text) :
      /\ HasAt(text, p, OpenMarker) => (p + 2 > Len(text) \/ IsSpace(text[p + 2]))
      /\ HasAt(text, p, CloseMarker) => (p = 1 \/ IsSpace(text[p - 1]))

\* An output with both markers whose input had both of them unspaced.
C2_Witness ==
  /\ pc = "done"
  /\ \E p \in 1..Len(input) :
       HasAt(input, p, OpenMarker) /\ p + 2 <= Len(input) /\ ~IsSpace(input[p + 2])
  /\ \E p \in 2..Len(input) : HasAt(input, p, CloseMarker) /\ ~IsSpace(input[p - 1])
  /\ \E p \in 1..Len(text) : HasAt(text, p, OpenMarker)
  /\ \E p \in 1..Len(text) : HasAt(text, p, CloseMarker)

\* C3: every whole-word trigger keyword of the output is at the start of
\* the document or right after a line-feed.
C3_KeywordPlacement ==
  pc = "done" => \A p \in KeywordOccurrences(text) : AtLineStart(text, p)

\* An output whose input had a keyword right after a carriage return or
\* right after an open marker.
C3_Witness ==
  /\ pc = "done"
  /\ \E p \in 2..Len(input) :
       /\ IsKeywordOccurrence(input, p)
       /\ input[p - 1] = "\r" \/ HasAt(input, p - 2, OpenMarker)
  /\ KeywordOccurrences(text) # {}

\* The line-ending conversion stated position by position: a carriage return
\* followed by a line-feed disappears, any other one becomes a line-feed.
Canonical(t) ==
  Flatten([i \in 1..Len(t) |->
             IF t[i] # "\r" THEN <<t[i]>>
             ELSE IF i < Len(t) /\ t[i + 1] = "\n" THEN <<>>
             ELSE <<"\n">>])

\* C4: the output holds no carriage return: every CR+LF pair and every bare
\* CR left by the two rewrite passes has become one line-feed.
C4_NoCarriageReturn ==
  pc = "done" =>
    /\ \A i \in 1..Len(text) : text[i] # "\r"
    /\ text = Canonical(ensure_newline_before_keywords(format_comment_spaces(input)))

\* An output whose input had a carriage return right before a keyword, so
\* that the inserted line-feed made a CR+LF pair, and a bare one as well.
C4_Witness ==
  /\ pc = "done"
  /\ \E p \in 2..Len(input) : IsKeywordOccurrence(input, p) /\ input[p - 1] = "\r"
  /\ \E p \in 1..Len(input) :
       input[p] = "\r" /\ ~(p < Len(input) /\ IsKeywordOccurrence(input, p + 1))

\* C10: the pipeline changes layout only: input and output agree once
\* blanks, tabs, carriage returns and line-feeds are deleted from both.
C10_OnlyLayoutChanges == pc = "done" => StripLayout(text) = StripLayout(input)

\* An output in which a space and a line-feed were inserted and a carriage
\* return replaced.
C10_Witness ==
  /\ pc = "done"
  /\ \E p \in 1..Len(input) : input[p] = "\r"
  /\ \E p \in 2..Len(input) : HasAt(input, p, CloseMarker) /\ ~IsSpace(input[p - 1])
  /\ Len(text) > Len(input)

(* ---------------------------------------------------------------------- *)
(* Properties of format_comment_spaces                                     *)
(* ---------------------------------------------------------------------- *)

\* "(*" ends at position i of t and no white space follows it in t.
OpenUnspaced(t, i) ==
  HasAt(t, i - 1, OpenMarker) /\ ~(i < Len(t) /\ IsSpace(t[i + 1]))

\* "*)" starts at position i of t and no white space precedes it in t.
CloseUnspaced(t, i) ==
  HasAt(t, i, CloseMarker) /\ ~(i > 1 /\ IsSpace(t[i - 1]))

\* One simultaneous replacement of non-overlapping matches, all decided on
\* t alone: a space after each "(*" not followed by white space, a space
\* before each "*)" not preceded by white space; of two markers sharing
\* their star, as in "(*)", the left one is the match.
SimultaneousSpaces(t) ==
  Flatten([i \in 1..Len(t) |->
             (IF CloseUnspaced(t, i) /\ ~HasAt(t, i - 1, OpenMarker)
              THEN <<" ">> ELSE <<>>)
               \o <<t[i]>>
               \o (IF OpenUnspaced(t, i) THEN <<" ">> ELSE <<>>)])

\* The same, except that a "*)" gets no space either when a "(*" ends right
\* before it: the space put after that "(*" already precedes it.
SuccessiveSpaces(t) ==
  Flatten([i \in 1..Len(t) |->
             (IF /\ CloseUnspaced(t, i)
                 /\ ~HasAt(t, i - 1, OpenMarker)
                 /\ ~HasAt(t, i - 2, OpenMarker)
              THEN <<" ">> ELSE <<>>)
               \o <<t[i]>>
               \o (IF OpenUnspaced(t, i) THEN <<" ">> ELSE <<>>)])

WellSpaced(t) ==
  \A p \in 1..Len(t) :
    /\ HasAt(t, p, OpenMarker) => (p + 2 <= Len(t) /\ IsSpace(t[p + 2]))
    /\ HasAt(t, p, CloseMarker) => (p > 1 /\ IsSpace(t[p - 1]))

\* C9: format_comment_spaces is idempotent: it leaves its own result
\* unchanged, and leaves unchanged any text that is already well spaced.
C9_SpacesIdempotent ==
  pc = "spaced" =>
    /\ format_comment_spaces(text) = text
    /\ WellSpaced(input) => text = input

\* The result for a text in which both markers lacked their space.
C9_Witness ==
  /\ pc = "spaced"
  /\ \E p \in 1..Len(input) : HasAt(input, p, OpenMarker) /\ IsWordAt(input, p + 2)
  /\ \E p \in 2..Len(input) : HasAt(input, p, CloseMarker) /\ IsWordAt(input, p - 1)
  /\ Len(text) = Len(input) + 2

(* ---------------------------------------------------------------------- *)
(* Properties of ensure_newline_before_keywords                            *)
(* ---------------------------------------------------------------------- *)

\* The positions of t before which the keyword substitution put a line-feed.
Rewritten(t) == MatchStartsFrom(t, 1)

\* C6 as claimed: a keyword that is the first token of its line, also one
\* after leading blanks only, gets no line-feed, and a text all of whose
\* keywords are first tokens is returned unchanged.
C6_FirstTokenKept ==
  pc = "kw_only" =>
    /\ \A p \in KeywordOccurrences(input) :
         FirstTokenOfLine(input, p) => p \notin Rewritten(input)
    /\ (\A p \in KeywordOccurrences(input) : FirstTokenOfLine(input, p))
         => text = input

\* C6 as amended: a keyword is left without a new line-feed exactly when it
\* stands at the start of the document or right after a line-feed, and a
\* text all of whose keywords stand there is returned unchanged; a keyword
\* after leading blanks is rewritten.
C6_LineStartKept ==
  pc = "kw_only" =>
    /\ \A p \in KeywordOccurrences(input) :
         AtLineStart(input, p) <=> p \notin Rewritten(input)
    /\ (\A p \in KeywordOccurrences(input) : AtLineStart(input, p))
         => text = input

\* The result for a text with one keyword at the start of the document,
\* kept there, and a later one that is moved.
C6_Witness ==
  /\ pc = "kw_only"
  /\ IsKeywordOccurrence(input, 1)
  /\ IsKeywordOccurrence(text, 1)
  /\ \E p \in 2..Len(input) : IsKeywordOccurrence(input, p)
  /\ text # input

WithLineFeeds(t) ==
  Flatten([i \in 1..Len(t) |->
             (IF IsKeywordOccurrence(t, i) /\ ~AtLineStart(t, i)
              THEN <<"\n">> ELSE <<>>)
               \o <<t[i]>>])

\* C8: ensure_newline_before_keywords returns the input with exactly one
\* line-feed before each whole-word keyword that the input has neither at
\* offset 0 nor right after a line-feed, and changes nothing else.
C8_ExactlyOneLineFeed == pc = "kw_only" => text = WithLineFeeds(input)

\* The result for a text with a keyword after a blank, which is kept.
C8_Witness ==
  /\ pc = "kw_only"
  /\ \E p \in 2..Len(input) :
       /\ IsKeywordOccurrence(input, p)
       /\ input[p - 1] = " "
       /\ HasAt(text, p - 1, <<" ", "\n">>)
  /\ Len(text) = Len(input) + 1

====
